---- MODULE Spec2Model ----
(***************************************************************************)
(* A model of cp2k_tools/parser/xyz.py: the two regular expressions, the   *)
(* parse_iter generator with its scoped memory mapping, the BlockIterator  *)
(* that validates the atom count while it is pulled, and the eager parse.  *)
(*                                                                         *)
(* Text is a sequence of one-character tokens.  A Python value that is a   *)
(* str or a bytes object is a record [t, v]: t is "str" or "bytes" and v   *)
(* is the sequence of characters or of bytes.  An ASCII character and its  *)
(* byte share a token; the non-ASCII character "U+E9" is the two bytes     *)
(* "xC3" "xA9" in UTF-8.                                                   *)
(***************************************************************************)
EXTENDS Integers, Sequences, FiniteSets, TLC

(***************************************************************************)
(* Character classes of the `re` module, restricted to the alphabet of the *)
(* model: the letters and digits below, " ", tab, newline, the signs and   *)
(* the dot, "#", "|" and the non-ASCII letter.  On this alphabet a str     *)
(* pattern and its utf8-encoded bytes pattern have the same classes.       *)
(***************************************************************************)
NL == "\n"

Digits == {"0", "1", "2", "3", "4", "5", "6", "7", "8", "9"}

Letters == {"C", "H", "O", "c", "d", "e", "E"}

SpaceTab == {" ", "\t"}

WhiteSpace == {" ", "\t", NL}

Alpha == Letters

AlNum == Letters \cup Digits

(***************************************************************************)
(* Regular expressions as trees, and the backtracking matcher:             *)
(* Ends(r, s, i, memo) is the sequence of positions at which a match of r  *)
(* that starts at i can end, in the order in which the backtracking engine *)
(* tries them (greedy repetition first, alternatives left to right).  A    *)
(* position appears once, at the first place the engine reaches it.  memo  *)
(* holds, for some sub-expressions, these sequences for every position of  *)
(* s; the matcher looks them up instead of matching again.                 *)
(***************************************************************************)
Eps == [t |-> "eps"]

Bol == [t |-> "bol"]

In(S) == [t |-> "in", s |-> S]

NotIn(S) == [t |-> "notin", s |-> S]

Cat(a, b) == [t |-> "cat", a |-> a, b |-> b]

Alt(a, b) == [t |-> "alt", a |-> a, b |-> b]

Star(a) == [t |-> "star", a |-> a]

Plus(a) == Cat(a, Star(a))

Opt(a) == Alt(a, Eps)

Rep3(a) == Cat(a, Cat(a, a))

RECURSIVE CatAll(_)
CatAll(rs) == IF Len(rs) = 1 THEN rs[1] ELSE Cat(Head(rs), CatAll(Tail(rs)))

Member(x, seq) == \E k \in 1..Len(seq) : seq[k] = x

\* xs, then the positions of ys that are not in xs
Merge(xs, ys) == xs \o SelectSeq(ys, LAMBDA y : ~Member(y, xs))

\* The positions of the sequences E[1], E[2], ... in the order in which they
\* first appear when the sequences are read one after the other.
Flatten(E) ==
    LET pairs == UNION {{<<k, h>> : h \in 1..Len(E[k])} : k \in 1..Len(E)}
        Before(q, p) == q[1] < p[1] \/ (q[1] = p[1] /\ q[2] < p[2])
        first == {p \in pairs :
                     \A q \in pairs : Before(q, p) => E[q[1]][q[2]] # E[p[1]][p[2]]}
        Nth(n) == CHOOSE p \in first : Cardinality({q \in first : Before(q, p)}) = n - 1
    IN  IF Len(E) = 1 THEN E[1]
        ELSE [n \in 1..Cardinality(first) |-> E[Nth(n)[1]][Nth(n)[2]]]

Memoised(r, memo) == \E k \in 1..Len(memo) : memo[k].r = r

Lookup(r, i, memo) == memo[CHOOSE k \in 1..Len(memo) : memo[k].r = r].ends[i]

RECURSIVE Ends(_, _, _, _)
\* r tried at each of the positions js, in their order
EndsFrom(r, s, js, memo) == Flatten([k \in 1..Len(js) |-> Ends(r, s, js[k], memo)])

\* a concatenation a b c ... tried from the positions js: a from js, then b
\* from where a can end, and so on
RECURSIVE EndsOfCat(_, _, _, _)
EndsOfCat(r, s, js, memo) ==
    IF js = <<>> THEN <<>>
    ELSE IF r.t = "cat" /\ ~Memoised(r, memo)
    THEN EndsOfCat(r.b, s, EndsFrom(r.a, s, js, memo), memo)
    ELSE EndsFrom(r, s, js, memo)

Ends(r, s, i, memo) ==
    CASE Memoised(r, memo) -> Lookup(r, i, memo)
      [] r.t = "eps" -> <<i>>
      [] r.t = "bol" -> IF i = 1 THEN <<i>>
                        ELSE IF s[i - 1] = NL THEN <<i>> ELSE <<>>
      [] r.t = "in" -> IF i <= Len(s) THEN (IF s[i] \in r.s THEN <<i + 1>> ELSE <<>>)
                       ELSE <<>>
      [] r.t = "notin" -> IF i <= Len(s) THEN (IF s[i] \notin r.s THEN <<i + 1>> ELSE <<>>)
                          ELSE <<>>
      [] r.t = "cat" -> EndsOfCat(r, s, <<i>>, memo)
      [] r.t = "alt" -> Merge(Ends(r.a, s, i, memo), Ends(r.b, s, i, memo))
      [] r.t = "star" ->
            IF r.a.t \in {"in", "notin"}
            THEN \* a run of single characters: the longest run first
                 LET stop == CHOOSE j \in i..(Len(s) + 1) :
                                 /\ \A k \in i..(j - 1) : Len(Ends(r.a, s, k, memo)) > 0
                                 /\ j = Len(s) + 1 \/ Len(Ends(r.a, s, j, memo)) = 0
                 IN  [k \in 1..(stop - i + 1) |-> stop - k + 1]
            ELSE Merge(EndsFrom(r, s, SelectSeq(Ends(r.a, s, i, memo), LAMBDA j : j # i),
                                memo),
                       <<i>>)

\* The sub-expressions subs, each matched at every position of s with the
\* ones before it already memoised.
RECURSIVE Memoise(_, _, _)
Memoise(subs, s, memo) ==
    IF Len(memo) = Len(subs) THEN memo
    ELSE Memoise(subs, s,
                 Append(memo,
                        [r |-> subs[Len(memo) + 1],
                         ends |-> [i \in 1..(Len(s) + 1) |->
                                      Ends(subs[Len(memo) + 1], s, i, memo)]]))

(***************************************************************************)
(* A pattern with capture groups is a sequence of parts; MatchAt gives the *)
(* boundaries <<i, e1, ..., en>> of the parts in the first match that the  *)
(* engine finds at i, or <<>> when the pattern does not match at i.  bs    *)
(* are the boundaries of the parts matched so far, in the order in which   *)
(* the engine tries them; each is extended by the ends of the next part.   *)
(* Of two that end at the same position the second is never tried to its   *)
(* end: what follows is the same for both.                                 *)
(***************************************************************************)
Extend(r, s, bs, memo) ==
    LET E == [k \in 1..Len(bs) |-> Ends(r, s, bs[k][Len(bs[k])], memo)]
        order == Flatten(E)
        Owner(e) == CHOOSE k \in 1..Len(E) :
                        Member(e, E[k]) /\ \A g \in 1..(k - 1) : ~Member(e, E[g])
    IN  [n \in 1..Len(order) |-> Append(bs[Owner(order[n])], order[n])]

RECURSIVE MatchFrom(_, _, _, _)
MatchFrom(parts, s, bs, memo) ==
    IF bs = <<>> THEN <<>>
    ELSE IF parts = <<>> THEN bs[1]
    ELSE MatchFrom(Tail(parts), s, Extend(Head(parts), s, bs, memo), memo)

MatchAt(parts, s, i, memo) == MatchFrom(parts, s, <<(<<i>>)>>, memo)

(***************************************************************************)
(* pattern.search(s, pos): the leftmost match at or after pos, given the   *)
(* match M[p] at every position p of s (<<>> where there is none).         *)
(***************************************************************************)
Search(M, pos) ==
    LET starts == {p \in pos..Len(M) : M[p] # <<>>}
    IN  IF starts = {} THEN <<>>
        ELSE M[CHOOSE p \in starts : \A q \in starts : p <= q]

Group(s, m, k) == SubSeq(s, m[k], m[k + 1] - 1)

(***************************************************************************)
(* POS_MATCH_REGEX (MULTILINE | VERBOSE).  In VERBOSE mode white space in  *)
(* the pattern is ignored except inside a character class, so [\-|\+] is   *)
(* the set - | +, [E | e] is E, space, | and e, and [+|-] is + | -.        *)
(***************************************************************************)
PosSign == {"-", "|", "+"}

ExpMark == {"E", " ", "|", "e"}

ExpSign == {"+", "|", "-"}

Exponent == Opt(CatAll(<<In(ExpMark), Opt(In(ExpSign)), Plus(In(Digits))>>))

PosFloat ==
    CatAll(<<Opt(In(PosSign)),
             Alt(CatAll(<<Star(In(Digits)), In({"."}), Plus(In(Digits))>>),
                 CatAll(<<Plus(In(Digits)), Opt(In({"."})), Star(In(Digits))>>)),
             Exponent>>)

\* parts: 1 line start and white space, 2 sym, 3 \s+, 4 x, 5 [ \t]+, 6 y, 7 [ \t]+, 8 z
POS_MATCH_REGEX ==
    << Cat(Bol, Star(In(SpaceTab))),
       Cat(Plus(In(Alpha)), Star(In(AlNum))),
       Plus(In(WhiteSpace)),
       PosFloat,
       Plus(In(SpaceTab)),
       PosFloat,
       Plus(In(SpaceTab)),
       PosFloat >>

(***************************************************************************)
(* FRAME_MATCH_REGEX (MULTILINE | VERBOSE).  Inside the {3} group the "|"  *)
(* separates "white space, sign, digits . digits" from "digits, optional   *)
(* dot, digits, optional exponent": the second alternative has neither the *)
(* leading white space nor the sign.  [\- | \+ ] is the set - space | +.   *)
(***************************************************************************)
FrameSign == {"-", " ", "|", "+"}

FrameNumber ==
    Alt(CatAll(<<Plus(In(WhiteSpace)), Opt(In(FrameSign)),
                 Star(In(Digits)), In({"."}), Plus(In(Digits))>>),
        CatAll(<<Plus(In(Digits)), Opt(In({"."})), Star(In(Digits)), Exponent>>))

FrameLine ==
    Cat(Alt(CatAll(<<Star(In(WhiteSpace)),
                     Alt(CatAll(<<Plus(In(Alpha)), Star(In(AlNum)), Rep3(FrameNumber)>>),
                         In({"#"})),
                     Star(NotIn({NL}))>>),
            Star(In(WhiteSpace))),
        In({NL}))

\* parts: 1 line start and white space, 2 natoms, 3 end of the first line,
\*        4 comment, 5 newline, 6 positions
FRAME_MATCH_REGEX ==
    << Cat(Bol, Star(In(SpaceTab))),
       Plus(In(Digits)),
       Cat(Star(In(SpaceTab)), In({NL})),
       Star(NotIn({NL})),
       In({NL}),
       Plus(FrameLine) >>

(***************************************************************************)
(* Python values.  Str and Bytes are different types: 'C' == b'C' is false.*)
(***************************************************************************)
Str(v) == [t |-> "str", v |-> v]

Bytes(v) == [t |-> "bytes", v |-> v]

\* str.encode('utf8'): "U+E9" becomes two bytes, every other character one.
\* Each character is given two slots, and the second slot is kept only for
\* "U+E9".
Utf8Encode(v) ==
    LET slots == [n \in 1..(2 * Len(v)) |-> <<v[(n + 1) \div 2], n % 2>>]
        Encoded(kept) ==
            [n \in 1..Len(kept) |->
                IF kept[n][1] # "U+E9" THEN kept[n][1]
                ELSE IF kept[n][2] = 1 THEN "xC3" ELSE "xA9"]
    IN  Encoded(SelectSeq(slots, LAMBDA p : p[2] = 1 \/ p[1] = "U+E9"))

\* bytes.decode('utf8'); a byte sequence that is not valid UTF-8 decodes to
\* the marker <<"UnicodeDecodeError">>.
Utf8Decode(b) ==
    LET lead == SelectSeq(b, LAMBDA c : c # "xA9")
    IN  IF \A k \in 1..Len(b) :
              /\ b[k] = "xC3" => (k < Len(b) /\ b[k + 1] = "xA9")
              /\ b[k] = "xA9" => (k > 1 /\ b[k - 1] = "xC3")
        THEN [k \in 1..Len(lead) |-> IF lead[k] = "xC3" THEN "U+E9" ELSE lead[k]]
        ELSE <<"UnicodeDecodeError">>

DigitValue ==
    [c \in Digits |->
        CASE c = "0" -> 0 [] c = "1" -> 1 [] c = "2" -> 2 [] c = "3" -> 3
          [] c = "4" -> 4 [] c = "5" -> 5 [] c = "6" -> 6 [] c = "7" -> 7
          [] c = "8" -> 8 [] c = "9" -> 9]

\* int() of a run of decimal digits (the empty run counts 0 here)
RECURSIVE DigitsToNat(_)
DigitsToNat(ds) ==
    IF Len(ds) = 0 THEN 0
    ELSE 10 * DigitsToNat(SubSeq(ds, 1, Len(ds) - 1)) + DigitValue[ds[Len(ds)]]

PyInt(val) == DigitsToNat(val.v)

(***************************************************************************)
(* float() of a str or bytes value.  The result is the decimal the text    *)
(* denotes, sign * m * 10^e with m free of trailing zeros (so that "1",    *)
(* "1.0" and "10e-1" are the same number), or a ValueError when the text   *)
(* is not a number, as for the capture "0.0 1" with a space in it.         *)
(***************************************************************************)
RECURSIVE Normalise(_, _, _)
Normalise(sign, m, e) ==
    IF m = 0 THEN [err |-> "none", sign |-> 1, m |-> 0, e |-> 0]
    ELSE IF m % 10 = 0 THEN Normalise(sign, m \div 10, e + 1)
    ELSE [err |-> "none", sign |-> sign, m |-> m, e |-> e]

\* the parts of a number: a sign, digits, a point, digits, an exponent mark,
\* a sign and digits; float() takes of each as much as there is
FloatParts ==
    << [many |-> FALSE, of |-> {"+", "-"}], [many |-> TRUE, of |-> Digits],
       [many |-> FALSE, of |-> {"."}], [many |-> TRUE, of |-> Digits],
       [many |-> FALSE, of |-> {"e", "E"}], [many |-> FALSE, of |-> {"+", "-"}],
       [many |-> TRUE, of |-> Digits] >>

\* where the part that starts at i ends
FloatPart(part, v, i) ==
    IF part.many
    THEN CHOOSE j \in i..(Len(v) + 1) :
             /\ \A k \in i..(j - 1) : v[k] \in part.of
             /\ j = Len(v) + 1 \/ v[j] \notin part.of
    ELSE IF i <= Len(v) /\ v[i] \in part.of THEN i + 1 ELSE i

\* the boundaries of the parts, m[k] to m[k + 1] for the k-th
RECURSIVE FloatScan(_, _, _)
FloatScan(parts, v, m) ==
    IF parts = <<>> THEN m
    ELSE FloatScan(Tail(parts), v, Append(m, FloatPart(Head(parts), v, m[Len(m)])))

PyFloat(val) ==
    LET Value(whole, sign, int, frac, emark, esign, edigits) ==
            IF /\ whole
               /\ Len(int) + Len(frac) >= 1
               /\ (Len(emark) = 1) <=> (Len(edigits) >= 1)
               /\ (Len(esign) = 1) => (Len(emark) = 1)
            THEN Normalise(IF sign = <<"-">> THEN 0 - 1 ELSE 1,
                           DigitsToNat(int \o frac),
                           (IF esign = <<"-">> THEN 0 - 1 ELSE 1) * DigitsToNat(edigits)
                               - Len(frac))
            ELSE [err |-> "ValueError", sign |-> 1, m |-> 0, e |-> 0]
        Read(v, m) ==
            Value(m[8] = Len(v) + 1, Group(v, m, 1), Group(v, m, 2), Group(v, m, 4),
                  Group(v, m, 5), Group(v, m, 6), Group(v, m, 7))
    IN  Read(val.v, FloatScan(FloatParts, val.v, <<1>>))

(***************************************************************************)
(* The inputs.  A document is a sequence of frames, each a declared atom   *)
(* count, a comment and the lines of its positions block; its text is the  *)
(* lines, each ended by a newline.  LineA and LineB are coordinate lines   *)
(* in the forms digits.digits, .digits and signed, with an exponent on the *)
(* last number only; LineI has the forms digits and digits. and LineX an   *)
(* exponent on its first number.                                           *)
(***************************************************************************)
MaxLines == 2

MaxPulls == 3

LineA == <<"C", " ", "0", ".", "5", " ", ".", "5", " ", "-", ".", "5">>

LineB == <<"H", " ", "+", "1", ".", "0", " ", "0", ".", "5", " ", "2", ".", "5", "E", "1">>

LineI == <<"O", " ", "1", " ", "2", ".", " ", "-", "3">>

LineX == <<"O", " ", "1", ".", "5", "e", "1", " ", "0", ".", "5", " ", "0", ".", "5">>

BlankLine == <<>>

HashLine == <<"#", " ", "c">>

Kinds == {"str", "bytes", "file"}

SeqsUpTo(S, n) == UNION {[1..k -> S] : k \in 0..n}

CoordLine(j) == IF j % 2 = 1 THEN LineA ELSE LineB

\* frames of alternating LineA and LineB
PlainFrames ==
    {[natoms |-> n, comment |-> <<"c">>, block |-> [j \in 1..k |-> CoordLine(j)]] :
        n \in 0..MaxLines, k \in 0..MaxLines}

\* frames with a non-ASCII comment and with coordinate lines of the other
\* forms, blank lines and commented-out lines
MixedFrames ==
    {[natoms |-> n, comment |-> <<"U+E9">>, block |-> b] :
        n \in 0..MaxLines,
        b \in SeqsUpTo({LineA, LineI, LineX, BlankLine, HashLine}, MaxLines)}

\* documents of one frame, and of two plain frames
Docs ==
    {<<f>> : f \in PlainFrames \cup MixedFrames}
        \cup {<<f, g>> : f \in PlainFrames, g \in PlainFrames}

RECURSIVE JoinLines(_)
JoinLines(ls) ==
    IF Len(ls) = 0 THEN <<>> ELSE Head(ls) \o <<NL>> \o JoinLines(Tail(ls))

DigitOf(n) == CHOOSE c \in Digits : DigitValue[c] = n

FrameText(f) == JoinLines(<<(<<DigitOf(f.natoms)>>), f.comment>> \o f.block)

RECURSIVE DocText(_)
DocText(d) == IF Len(d) = 0 THEN <<>> ELSE FrameText(Head(d)) \o DocText(Tail(d))

\* the argument of the call: the text, its utf8 bytes, or a file of these bytes
AsInput(kind, text) ==
    IF kind = "str" THEN Str(text) ELSE [t |-> kind, v |-> Utf8Encode(text)]

(***************************************************************************)
(* The matches of the two patterns in the texts of the model, computed     *)
(* once: for a text s and each position p the match at p.  The texts are   *)
(* the contents that parse_iter scans for frames and the positions blocks  *)
(* of the frames found in them.  Sub-expressions that a pattern uses at    *)
(* several places are memoised.                                            *)
(***************************************************************************)
FrameSubs == <<Exponent, FrameNumber, FrameLine>>

PosSubs == <<Exponent, PosFloat>>

MatchTable(parts, subs, s) ==
    LET At(memo) == [p \in 1..(Len(s) + 1) |-> MatchAt(parts, s, p, memo)]
    IN  At(Memoise(subs, s, <<>>))

FrameTexts == {AsInput(kind, DocText(d)).v : d \in Docs, kind \in {"str", "bytes"}}

FrameMatches == [s \in FrameTexts |-> MatchTable(FRAME_MATCH_REGEX, FrameSubs, s)]

PosTexts ==
    UNION {{Group(s, FrameMatches[s][p], 6) :
               p \in {q \in 1..(Len(s) + 1) : FrameMatches[s][q] # <<>>}} :
           s \in FrameTexts}

PosMatches == [s \in PosTexts |-> MatchTable(POS_MATCH_REGEX, PosSubs, s)]

(***************************************************************************)
(* pattern.finditer(string): a scanner over string, here the string and    *)
(* the position at which the next search starts.  ScanNext is next() on    *)
(* it: the next match and the advanced scanner, or no match (the iterator  *)
(* is exhausted, and stays so).                                            *)
(***************************************************************************)
finditer(pattern, string) == [pattern |-> pattern, string |-> string, pos |-> 1]

ScanNext(it) ==
    LET Scanned(m) ==
            IF m = <<>>
            THEN [found |-> FALSE, m |-> <<>>,
                  it |-> [it EXCEPT !.pos = Len(it.string.v) + 2]]
            ELSE [found |-> TRUE, m |-> m, it |-> [it EXCEPT !.pos = m[Len(m)]]]
    IN  Scanned(Search(IF it.pattern = "frame" THEN FrameMatches[it.string.v]
                       ELSE PosMatches[it.string.v],
                       it.pos))

\* match.group(k) has the type of the string that was searched
GroupOf(string, m, k) == [t |-> string.t, v |-> Group(string.v, m, k)]

(***************************************************************************)
(* as_byteorstringlike: the content to scan, whether it is a str, and      *)
(* whether a memory mapping was made for it.  A file handle is mapped and  *)
(* the mapping is bytes-like.  (mmap refuses a file of length 0; every     *)
(* input of the model has at least one line.)                              *)
(***************************************************************************)
as_byteorstringlike(fh_or_content) ==
    IF fh_or_content.t = "str"
    THEN [content |-> fh_or_content, is_string |-> TRUE, mapped |-> FALSE]
    ELSE IF fh_or_content.t = "bytes"
    THEN [content |-> fh_or_content, is_string |-> FALSE, mapped |-> FALSE]
    ELSE [content |-> Bytes(fh_or_content.v), is_string |-> FALSE, mapped |-> TRUE]

(***************************************************************************)
(* BlockIterator.  An outcome of __next__ is an entry (sym, (x, y, z)),    *)
(* StopIteration, one of the two TypeErrors with the two numbers of its    *)
(* message, or the ValueError of float().                                  *)
(***************************************************************************)
Item(entry) == [kind |-> "item", entry |-> entry, args |-> <<>>]

StopIteration == [kind |-> "stop", entry |-> <<>>, args |-> <<>>]

TypeError(which, catom, natoms) ==
    [kind |-> which, entry |-> <<>>, args |-> <<catom, natoms>>]

ValueError == [kind |-> "ValueError", entry |-> <<>>, args |-> <<>>]

BlockIterator(it, natoms) == [it |-> it, natoms |-> natoms, catom |-> 0]

\* BlockNext without the comparison on exhaustion: StopIteration is always re-raised
BlockNext_NoCountCheck(self) ==
    LET Entry(sym, x, y, z) ==
            IF x.err = "none" /\ y.err = "none" /\ z.err = "none"
            THEN Item(<<sym, <<x, y, z>>>>)
            ELSE ValueError
        Outcome(r) ==
            IF ~r.found
            THEN [self |-> [self EXCEPT !.it = r.it],
                  out |-> StopIteration]
            ELSE [self |-> [self EXCEPT !.it = r.it, !.catom = self.catom + 1],
                  out |-> IF self.catom + 1 > self.natoms
                          THEN TypeError("larger", self.catom + 1, self.natoms)
                          ELSE Entry(GroupOf(self.it.string, r.m, 2),
                                     PyFloat(GroupOf(self.it.string, r.m, 4)),
                                     PyFloat(GroupOf(self.it.string, r.m, 6)),
                                     PyFloat(GroupOf(self.it.string, r.m, 8)))]
    IN  Outcome(ScanNext(self.it))

\* BlockNext with >= for > in the comparison after the increment
BlockNext_EarlyCheck(self) ==
    LET Entry(sym, x, y, z) ==
            IF x.err = "none" /\ y.err = "none" /\ z.err = "none"
            THEN Item(<<sym, <<x, y, z>>>>)
            ELSE ValueError
        Outcome(r) ==
            IF ~r.found
            THEN [self |-> [self EXCEPT !.it = r.it],
                  out |-> IF self.catom = self.natoms THEN StopIteration
                          ELSE TypeError("smaller", self.catom, self.natoms)]
            ELSE [self |-> [self EXCEPT !.it = r.it, !.catom = self.catom + 1],
                  out |-> IF self.catom + 1 >= self.natoms
                          THEN TypeError("larger", self.catom + 1, self.natoms)
                          ELSE Entry(GroupOf(self.it.string, r.m, 2),
                                     PyFloat(GroupOf(self.it.string, r.m, 4)),
                                     PyFloat(GroupOf(self.it.string, r.m, 6)),
                                     PyFloat(GroupOf(self.it.string, r.m, 8)))]
    IN  Outcome(ScanNext(self.it))

\* BlockNext with the comparison after the increment one entry late
BlockNext_LateCheck(self) ==
    LET Entry(sym, x, y, z) ==
            IF x.err = "none" /\ y.err = "none" /\ z.err = "none"
            THEN Item(<<sym, <<x, y, z>>>>)
            ELSE ValueError
        Outcome(r) ==
            IF ~r.found
            THEN [self |-> [self EXCEPT !.it = r.it],
                  out |-> IF self.catom = self.natoms THEN StopIteration
                          ELSE TypeError("smaller", self.catom, self.natoms)]
            ELSE [self |-> [self EXCEPT !.it = r.it, !.catom = self.catom + 1],
                  out |-> IF self.catom + 1 > self.natoms + 1
                          THEN TypeError("larger", self.catom + 1, self.natoms)
                          ELSE Entry(GroupOf(self.it.string, r.m, 2),
                                     PyFloat(GroupOf(self.it.string, r.m, 4)),
                                     PyFloat(GroupOf(self.it.string, r.m, 6)),
                                     PyFloat(GroupOf(self.it.string, r.m, 8)))]
    IN  Outcome(ScanNext(self.it))

BlockNext(self) ==
    LET Entry(sym, x, y, z) ==
            IF x.err = "none" /\ y.err = "none" /\ z.err = "none"
            THEN Item(<<sym, <<x, y, z>>>>)
            ELSE ValueError
        Outcome(r) ==
            IF ~r.found
            THEN [self |-> [self EXCEPT !.it = r.it],
                  out |-> IF self.catom = self.natoms THEN StopIteration
                          ELSE TypeError("smaller", self.catom, self.natoms)]
            ELSE [self |-> [self EXCEPT !.it = r.it, !.catom = self.catom + 1],
                  out |-> IF self.catom + 1 > self.natoms
                          THEN TypeError("larger", self.catom + 1, self.natoms)
                          ELSE Entry(GroupOf(self.it.string, r.m, 2),
                                     PyFloat(GroupOf(self.it.string, r.m, 4)),
                                     PyFloat(GroupOf(self.it.string, r.m, 6)),
                                     PyFloat(GroupOf(self.it.string, r.m, 8)))]
    IN  Outcome(ScanNext(self.it))

(***************************************************************************)
(* One round of the loop of parse_iter: the next frame match and the tuple *)
(* (natoms, comment, BlockIterator) that is yielded for it.                *)
(***************************************************************************)
FrameTuple(content, is_string, m) ==
    LET natoms == PyInt(GroupOf(content, m, 2))
        comment == GroupOf(content, m, 4)
    IN  [natoms |-> natoms,
         comment |-> IF is_string THEN comment ELSE Str(Utf8Decode(comment.v)),
         atomiter |-> BlockIterator(finditer("pos", GroupOf(content, m, 6)), natoms)]

(***************************************************************************)
(* list(atomiter): pull until StopIteration; an error ends the pulling and *)
(* propagates.                                                             *)
(***************************************************************************)
\* list(atomiter) inside a handler that swallows the error: the entries so far
RECURSIVE ListOf_Partial(_, _)
ListOf_Partial(atomiter, acc) ==
    LET Collect(r) ==
            IF r.out.kind = "item" THEN ListOf_Partial(r.self, Append(acc, r.out.entry))
            ELSE [ok |-> TRUE, atoms |-> acc, error |-> r.out]
    IN  Collect(BlockNext(atomiter))

RECURSIVE ListOf(_, _)
ListOf(atomiter, acc) ==
    LET Collect(r) ==
            IF r.out.kind = "item" THEN ListOf(r.self, Append(acc, r.out.entry))
            ELSE IF r.out.kind = "stop" THEN [ok |-> TRUE, atoms |-> acc, error |-> r.out]
            ELSE [ok |-> FALSE, atoms |-> <<>>, error |-> r.out]
    IN  Collect(BlockNext(atomiter))

(***************************************************************************)
(* The list comprehension of parse over parse_iter: the records of the     *)
(* frames, or the error of the first atom sequence that fails.  scan is    *)
(* the frame scanner of the generator; "at" is the number of the frame     *)
(* that was being consumed when the call ended.                            *)
(***************************************************************************)
RECURSIVE ParseLoop(_, _, _)
ParseLoop(scan, is_string, acc) ==
    LET Record(it, f, l) ==
            IF l.ok
            THEN ParseLoop(it, is_string,
                           Append(acc, [natoms |-> f.natoms, comment |-> f.comment,
                                        atoms |-> l.atoms]))
            ELSE [status |-> "raised", records |-> <<>>, error |-> l.error,
                  at |-> Len(acc) + 1]
        Frame(it, f) == Record(it, f, ListOf(f.atomiter, <<>>))
        Round(r) ==
            IF ~r.found
            THEN [status |-> "returned", records |-> acc, error |-> StopIteration,
                  at |-> Len(acc)]
            ELSE Frame(r.it, FrameTuple(scan.string, is_string, r.m))
    IN  Round(ScanNext(scan))

(***************************************************************************)
(* The state: the document and the argument made of it; where the caller   *)
(* is; the parse_iter generator (not yet created, created and not started, *)
(* suspended at its yield inside the with block, finished by exhaustion,   *)
(* or closed by GeneratorExit), its frame scanner, the memory mapping and  *)
(* the number of calls of mmapped.close(); the frame tuples the caller got *)
(* from the generator, each with the outcomes of the pulls made on its     *)
(* atom iterator; and the outcome of parse.                                *)
(***************************************************************************)
VARIABLES doc, fh_or_string, caller, gen, scan, mmapped, nclose, frames, result

vars == <<doc, fh_or_string, caller, gen, scan, mmapped, nclose, frames, result>>

Init ==
    /\ doc \in Docs
    /\ \E kind \in Kinds : fh_or_string = AsInput(kind, DocText(doc))
    /\ caller = "idle"
    /\ gen = "none"
    /\ scan = finditer("frame", Str(<<>>))
    /\ mmapped = "none"
    /\ nclose = 0
    /\ frames = <<>>
    /\ result = [status |-> "none", records |-> <<>>, error |-> StopIteration, at |-> 0]

\* leaving the with block: the finally clause of as_byteorstringlike
ExitWith(m, n) ==
    IF m = "open" THEN [mmapped |-> "closed", nclose |-> n + 1]
    ELSE [mmapped |-> m, nclose |-> n]

\* g = XYZParser.parse_iter(fh_or_string): nothing of the body runs yet
CallParseIter ==
    /\ caller = "idle"
    /\ caller' = "iterating"
    /\ gen' = "created"
    /\ UNCHANGED <<doc, fh_or_string, scan, mmapped, nclose, frames, result>>

\* next(g): run the generator to its next yield or to its end
NextFrame ==
    /\ caller = "iterating"
    /\ gen \in {"created", "suspended"}
    /\ LET e == as_byteorstringlike(fh_or_string)
           sc == IF gen = "created" THEN finditer("frame", e.content) ELSE scan
           opened == IF gen = "created" /\ e.mapped THEN "open" ELSE mmapped
           x == ExitWith(opened, nclose)
           Resume(r) ==
               /\ scan' = r.it
               /\ IF r.found
                  THEN /\ gen' = "suspended"
                       /\ frames' = Append(frames,
                              [tuple |-> FrameTuple(e.content, e.is_string, r.m),
                               log |-> <<>>])
                       /\ mmapped' = opened
                       /\ nclose' = nclose
                  ELSE /\ gen' = "finished"
                       /\ frames' = frames
                       /\ mmapped' = x.mmapped
                       /\ nclose' = x.nclose
       IN  Resume(ScanNext(sc))
    /\ UNCHANGED <<doc, fh_or_string, caller, result>>

\* Pull with the counter kept on the class: every iterator counts the pull
Pull_SharedCounter(i) ==
    /\ caller \in {"iterating", "abandoned"}
    /\ i \in 1..Len(frames)
    /\ Len(frames[i].log) < MaxPulls
    /\ LET Pulled(r) ==
               frames' = [h \in 1..Len(frames) |->
                            IF h = i
                            THEN [tuple |-> [frames[h].tuple EXCEPT !.atomiter = r.self],
                                  log |-> Append(frames[h].log, r.out)]
                            ELSE [frames[h] EXCEPT !.tuple.atomiter.catom = @ + 1]]
       IN  Pulled(BlockNext(frames[i].tuple.atomiter))
    /\ UNCHANGED <<doc, fh_or_string, caller, gen, scan, mmapped, nclose, result>>

\* next(atomiter) on the i-th frame tuple the caller holds
Pull(i) ==
    /\ caller \in {"iterating", "abandoned"}
    /\ i \in 1..Len(frames)
    /\ Len(frames[i].log) < MaxPulls
    /\ LET Pulled(r) ==
               frames' = [frames EXCEPT ![i].tuple.atomiter = r.self,
                                        ![i].log = Append(@, r.out)]
       IN  Pulled(BlockNext(frames[i].tuple.atomiter))
    /\ UNCHANGED <<doc, fh_or_string, caller, gen, scan, mmapped, nclose, result>>

\* the caller stops asking for frames
Abandon ==
    /\ caller = "iterating"
    /\ gen \in {"created", "suspended"}
    /\ caller' = "abandoned"
    /\ UNCHANGED <<doc, fh_or_string, gen, scan, mmapped, nclose, frames, result>>

\* g.close(), by the caller or by the collector once nothing refers to the
\* generator: GeneratorExit is raised at the yield and the with block is left
Finalize ==
    /\ caller \in {"abandoned", "parse_raised"}
    /\ gen \in {"created", "suspended"}
    /\ gen' = "closed"
    /\ LET x == IF gen = "suspended" THEN ExitWith(mmapped, nclose)
                ELSE [mmapped |-> mmapped, nclose |-> nclose]
       IN  mmapped' = x.mmapped /\ nclose' = x.nclose
    /\ UNCHANGED <<doc, fh_or_string, caller, scan, frames, result>>

\* XYZParser.parse(fh_or_string)
CallParse ==
    /\ caller = "idle"
    /\ LET e == as_byteorstringlike(fh_or_string)
           opened == IF e.mapped THEN "open" ELSE "none"
           x == ExitWith(opened, nclose)
           Ended(r) ==
               /\ result' = r
               /\ IF r.status = "returned"
                  THEN caller' = "parse_returned" /\ gen' = "finished"
                       /\ mmapped' = x.mmapped /\ nclose' = x.nclose
                  ELSE caller' = "parse_raised" /\ gen' = "suspended"
                       /\ mmapped' = opened /\ nclose' = nclose
       IN  Ended(ParseLoop(finditer("frame", e.content), e.is_string, <<>>))
    /\ UNCHANGED <<doc, fh_or_string, scan, frames>>

Next ==
    \/ CallParseIter
    \/ NextFrame
    \/ \E i \in 1..Len(frames) : Pull(i)
    \/ Abandon
    \/ Finalize
    \/ CallParse

Spec == Init /\ [][Next]_vars

(***************************************************************************)
(* What the claims are stated with.  These are computed from the argument  *)
(* of the call alone, by scanning it afresh: the frame tuples of the whole *)
(* content, the number of position lines of a positions block, and the     *)
(* outcomes of n pulls on an atom iterator that nothing else has touched.  *)
(***************************************************************************)
RECURSIVE AllFrames(_, _)
AllFrames(sc, is_string) ==
    LET r == ScanNext(sc)
    IN  IF ~r.found THEN <<>>
        ELSE <<FrameTuple(sc.string, is_string, r.m)>> \o AllFrames(r.it, is_string)

RefFrames ==
    LET e == as_byteorstringlike(fh_or_string)
    IN  AllFrames(finditer("frame", e.content), e.is_string)

RECURSIVE CountMatches(_)
CountMatches(it) ==
    LET r == ScanNext(it) IN IF r.found THEN 1 + CountMatches(r.it) ELSE 0

\* the number of position lines in the positions block of a frame tuple
PosLines(tuple) == CountMatches(finditer("pos", tuple.atomiter.it.string))

RECURSIVE PullN(_, _)
PullN(atomiter, n) ==
    IF n = 0 THEN <<>>
    ELSE LET r == BlockNext(atomiter) IN <<r.out>> \o PullN(r.self, n - 1)

\* the outcomes of n pulls on a fresh atom iterator of the k-th frame
IsolatedLog(k, n) == PullN(RefFrames[k].atomiter, n)

NumItems(log) == Cardinality({j \in 1..Len(log) : log[j].kind = "item"})

IsMismatch(out) == out.kind \in {"smaller", "larger"}

Min2(a, b) == IF a <= b THEN a ELSE b

\* the j-th pull is the one that ends the consumption of the sequence
EndsConsumption(log, j) ==
    /\ log[j].kind # "item"
    /\ \A h \in 1..(j - 1) : log[h].kind = "item"

Called == result.status # "none"

(***************************************************************************)
(* C2: when the atom sequence of a frame is consumed to its end, a block   *)
(* with fewer position lines than the declared natoms ends it with the     *)
(* "smaller" TypeError carrying the number found and the declared number,  *)
(* and a block with more ends it with the "larger" TypeError; this holds   *)
(* for the pulls of a caller of parse_iter and for the list() of parse.    *)
(***************************************************************************)
MismatchOutcome(tuple, out) ==
    LET n == tuple.natoms
        k == PosLines(tuple)
    IN  /\ k < n => out = TypeError("smaller", k, n)
        /\ k > n => out = TypeError("larger", n + 1, n)

C10_ErrorsAgreeWithBlock ==
    \A i \in 1..Len(frames) :
        LET f == frames[i]
            n == f.tuple.natoms
            k == PosLines(f.tuple)
        IN  \A j \in 1..Len(f.log) :
                /\ f.log[j].kind = "smaller" => (k < n /\ f.log[j].args[1] < n)
                /\ f.log[j].kind = "larger" => (k > n /\ f.log[j].args[1] > n)
                /\ (j > 1 /\ IsMismatch(f.log[j - 1])) => IsMismatch(f.log[j])

(***************************************************************************)
(* C6: parse is all or nothing.  It raises exactly when some frame of the  *)
(* content holds a number of position lines other than its natoms; the     *)
(* error is the mismatch error of the first such frame in document order   *)
(* and no record is returned with it; a list is returned only when every   *)
(* frame matches, and it has one record per frame.                         *)
(***************************************************************************)
Mismatched == {i \in 1..Len(RefFrames) : PosLines(RefFrames[i]) # RefFrames[i].natoms}

C7_FailureConfined ==
    /\ Len(frames) <= Len(RefFrames)
    /\ (gen = "finished" /\ caller = "iterating") => Len(frames) = Len(RefFrames)
    /\ \A i \in 1..Len(frames) :
          /\ frames[i].tuple.natoms = RefFrames[i].natoms
          /\ frames[i].tuple.comment = RefFrames[i].comment
          /\ frames[i].tuple.atomiter.it.string = RefFrames[i].atomiter.it.string
          /\ frames[i].log = IsolatedLog(i, Len(frames[i].log))

\* the first frame's sequence has failed; the second frame was obtained and
\* yielded its entry and ended normally, and the frame sequence is exhausted
C7_Witness ==
    /\ Len(frames) = 2
    /\ gen = "finished"
    /\ \E j \in 1..Len(frames[1].log) : IsMismatch(frames[1].log[j])
    /\ frames[2].tuple.natoms = 1
    /\ Len(frames[2].log) = 2
    /\ frames[2].log[1].kind = "item"
    /\ frames[2].log[2].kind = "stop"

(***************************************************************************)
(* C4, as the claim has it: a mapping made for a file handle is closed     *)
(* once and no more, and it is closed as soon as the parse is over: when   *)
(* the frame sequence is exhausted, when the caller has abandoned it, and  *)
(* when parse has returned or raised.                                      *)
(***************************************************************************)
ParseOver ==
    \/ caller \in {"abandoned", "parse_returned", "parse_raised"}
    \/ gen \in {"finished", "closed"}

C4_MappingReleasedOnce ==
    fh_or_string.t = "file" =>
        /\ nclose <= 1
        /\ (ParseOver /\ mmapped # "none") => (mmapped = "closed" /\ nclose = 1)

(***************************************************************************)
(* C5, as the claim has it: the utf8 bytes of a text, and a file of these  *)
(* bytes, give what the text gives: the same outcome of parse, and in the  *)
(* lazy API the same frames with the same entries and errors.              *)
(***************************************************************************)
TextFrames ==
    AllFrames(finditer("frame", Str(Utf8Decode(fh_or_string.v))), TRUE)

C5_EncodingEquivalence ==
    fh_or_string.t # "str" =>
        /\ Called =>
              result = ParseLoop(finditer("frame", Str(Utf8Decode(fh_or_string.v))),
                                 TRUE, <<>>)
        /\ \A i \in 1..Len(frames) :
              /\ frames[i].tuple.natoms = TextFrames[i].natoms
              /\ frames[i].tuple.comment = TextFrames[i].comment
              /\ frames[i].log = PullN(TextFrames[i].atomiter, Len(frames[i].log))

(***************************************************************************)
(* C1, as the claim has it: for a document whose frames each declare at    *)
(* least one atom and hold exactly natoms coordinate lines and nothing     *)
(* else, parse returns one record per frame, in document order, each with  *)
(* natoms atoms.                                                           *)
(***************************************************************************)
IsPosLine(line) == MatchAt(POS_MATCH_REGEX, line, 1, Memoise(PosSubs, line, <<>>)) # <<>>

NumPosLines(block) == Cardinality({j \in 1..Len(block) : IsPosLine(block[j])})

WellFormed(d) ==
    \A i \in 1..Len(d) :
        /\ d[i].natoms >= 1
        /\ Len(d[i].block) = d[i].natoms
        /\ \A j \in 1..Len(d[i].block) : IsPosLine(d[i].block[j])

C1_OneRecordPerFrame ==
    (Called /\ WellFormed(doc)) =>
        /\ result.status = "returned"
        /\ Len(result.records) = Len(doc)
        /\ \A i \in 1..Len(result.records) :
              /\ result.records[i].natoms = doc[i].natoms
              /\ Len(result.records[i].atoms) = result.records[i].natoms

(***************************************************************************)
(* C8, as the claim has it: a frame that declares natoms = N >= 1 and      *)
(* holds exactly N lines the position-line recognizer matches, with blank  *)
(* and "#" lines among them, parses without error into one record of N     *)
(* atoms, whose symbols are those of the N lines in order.                 *)
(***************************************************************************)
PosLinesOf(block) == SelectSeq(block, IsPosLine)

C8_FrameOfNLinesParses ==
    (Called /\ Len(doc) = 1 /\ doc[1].natoms >= 1
            /\ NumPosLines(doc[1].block) = doc[1].natoms) =>
        /\ result.status = "returned"
        /\ Len(result.records) = 1
        /\ result.records[1].natoms = doc[1].natoms
        /\ Len(result.records[1].atoms) = doc[1].natoms
        /\ \A j \in 1..Len(result.records[1].atoms) :
              result.records[1].atoms[j][1].v = <<Head(PosLinesOf(doc[1].block)[j])>>

====
